---- MODULE Spec2Model ----
(***************************************************************************)
(* Model of the CivicFuse contact-management backend: the request handlers *)
(* of app/api/v1 (contacts, groups, social profiles) running against the   *)
(* cms_core tables of a PostgreSQL store under READ COMMITTED.             *)
(*                                                                         *)
(* Each worker serves one HTTP request.  A handler is split at its SQL     *)
(* statements, which is where PostgreSQL lets other transactions in; a     *)
(* statement that is immediately followed by the commit of its own         *)
(* transaction is one step together with that commit.                      *)
(*                                                                         *)
(* Text values are tuples of character codes (ASCII), so that ILIKE and    *)
(* ORDER BY can be computed.  NULL and the "unset" marker of a pydantic    *)
(* patch field are tuples no text can equal.                               *)
(***************************************************************************)
EXTENDS Integers, Sequences, FiniteSets, TLC

VARIABLES
    db,             \* committed rows: contacts, groups, members, profiles
    nextContactId,  \* next generated contact_id
    nextGroupId,    \* next generated group_id
    nextProfileId,  \* next generated profile_id
    clock,          \* logical time, ticks when a request starts
    req,            \* req[w]: the request worker w serves
    pc,             \* pc[w]: the statement worker w executes next
    tx,             \* tx[w]: uncommitted deletes of w's open transaction
    pre,            \* pre[w]: committed rows when w's request started
    now,            \* now[w]: NOW() of w's request
    code,           \* code[w]: HTTP status of the finished request (0: none)
    outcome,        \* outcome[w]: which path of the handler produced code[w]
    resp,           \* resp[w]: the response body
    trail,          \* trail[w]: the steps the request in progress has taken
    conn,           \* conn[w]: transaction status of the connection when the
                    \* finished request handed it back ("none": not yet)
    pool            \* the connection pool: its size and the requests that
                    \* hold a connection of it

vars == <<db, nextContactId, nextGroupId, nextProfileId, clock, req, pc, tx, pre, now, code, outcome, resp, trail, conn, pool>>

----------------------------------------------------------------------------
(* Bounds of the model *)

MaxContacts == 2
MaxGroups == 2
MaxProfiles == 2
\* list queries: rows of the largest contacts table, and highest page asked for
MaxTotal == 26
MaxPage == 3
\* the largest pool size of the runs that exhaust the pool
MaxPool == 1

Workers == {"w1", "w2"}

----------------------------------------------------------------------------
(* Values *)

NULL == <<0>>
UNSET == <<-1>>

\* an identifier that is NULL; an optional identifier or status filter the
\* request leaves out is None (status: None or "", both falsy)
NoId == 0
NoRow == [absent |-> TRUE]
NoReq == [op |-> "none"]
NoTx == [delM |-> {}, delC |-> {}]
EmptyDb == [contacts |-> <<>>, groups |-> <<>>, members |-> {}, profiles |-> <<>>]

\* "a@", "b@", ...
EmailOf(i) == <<96 + i, 64>>
\* "Ga", "Gb", ...
GroupNameOf(i) == <<71, 96 + i>>
NameAl == <<65, 108>>
NameBo == <<66, 111>>
OrgX == <<88>>
DescD == <<100>>
\* "u1", "u2"
UrlOf(i) == <<117, 48 + i>>
HandleH == <<104>>

\* "x": what a form field named email may hold
NotAnEmail == <<120>>

InitialVersion == 1

----------------------------------------------------------------------------
(* Tables.  A table with a generated key is a function from key to row;    *)
(* contact_group_memberships is a set of rows keyed by (contact, group).   *)

Without(f, S) == [i \in DOMAIN f \ S |-> f[i]]
With(f, i, r) == [j \in DOMAIN f \cup {i} |-> IF j = i THEN r ELSE f[j]]

MemberKey(m) == <<m.contact_id, m.group_id>>
MembersOfContact(members, c) == {m \in members : m.contact_id = c}
MembersOfGroup(members, g) == {m \in members : m.group_id = g}

ContactRow(name, email, org, status, at) ==
    [full_name |-> name, email |-> email, organization |-> org,
     contact_status |-> status, created_at |-> at, updated_at |-> at,
     version |-> InitialVersion]

GroupRow(name, descr, at) ==
    [group_name |-> name, description |-> descr, created_at |-> at,
     updated_at |-> at, version |-> InitialVersion]

MemberRow(c, g, status, notes, at) ==
    [contact_id |-> c, group_id |-> g, membership_status |-> status,
     notes |-> notes, joined_at |-> at]

ProfileRow(c, platform, handle, url, notes, at) ==
    [contact_id |-> c, platform |-> platform, username_or_handle |-> handle,
     profile_url |-> url, notes |-> notes, added_at |-> at, updated_at |-> at,
     version |-> InitialVersion]

(* Constraints of the cms_core schema *)

\* contacts.email is unique
ContactsEmailKey(contacts, email, self) ==
    \E c \in DOMAIN contacts : c # self /\ contacts[c].email = email

\* groups.group_name is unique
GroupsNameKey(groups, name, self) ==
    \E g \in DOMAIN groups : g # self /\ groups[g].group_name = name

\* faulty variant: the table has no key
MembershipsKeyNone(members, c, g) == FALSE

\* one membership row per (contact_id, group_id)
MembershipsKey(members, c, g) ==
    \E m \in members : m.contact_id = c /\ m.group_id = g

\* social_profiles: profile_url is unique per contact
ProfilesUrlKey(profiles, c, url, self) ==
    \E p \in DOMAIN profiles :
        p # self /\ profiles[p].contact_id = c /\ profiles[p].profile_url = url

\* faulty variant: memberships do not hold a group
GroupReferencedNever(d, g) == FALSE

\* rows that reference group g through a foreign key
GroupReferenced(d, g) == \E m \in d.members : m.group_id = g

\* faulty variant: only memberships hold a contact, profiles do not
ContactReferencedByMembers(d, c) == \E m \in d.members : m.contact_id = c

\* rows that reference contact c through a foreign key
ContactReferenced(d, c) ==
    \/ \E m \in d.members : m.contact_id = c
    \/ \E p \in DOMAIN d.profiles : d.profiles[p].contact_id = c

----------------------------------------------------------------------------
(* The stores a run starts from.  A seed has nC contacts and nG groups:    *)
(* contact 1 has MaxProfiles social profiles and no membership, every      *)
(* other contact is an active member of every group and has no profile.    *)
(* Each is the store after a run of creates and adds.                      *)

SeedDb(nC, nG) ==
    [contacts |-> [i \in 1..nC |->
                     ContactRow(IF i = 1 THEN NameAl ELSE NameBo, EmailOf(i), NULL, "active", 0)],
     groups   |-> [i \in 1..nG |-> GroupRow(GroupNameOf(i), NULL, 0)],
     members  |-> {MemberRow(c, g, "active", NULL, 0) : c \in 2..nC, g \in 1..nG},
     profiles |-> [i \in 1..(IF nC = 0 THEN 0 ELSE MaxProfiles) |->
                     ProfileRow(1, "Twitter", NULL, UrlOf(i), NULL, 0)]]

SeedShapes ==
    {<<0, 0>>} \cup ({MaxContacts - 1, MaxContacts} \X {MaxGroups - 1, MaxGroups})

----------------------------------------------------------------------------
(* Transactions (READ COMMITTED).  A statement reads the committed rows    *)
(* and its own transaction's changes.  A row deleted by an open            *)
(* transaction is locked: a statement of another transaction that must     *)
(* write or key-share-lock it waits until that transaction ends.           *)

\* the rows left when the deletes of transaction t are applied to d
Apply(d, t) ==
    [d EXCEPT !.members = {m \in d.members : MemberKey(m) \notin t.delM},
              !.contacts = Without(d.contacts, t.delC)]

View(w) == Apply(db, tx[w])

LockedMembers(w) == UNION {tx[v].delM : v \in Workers \ {w}}
LockedContacts(w) == UNION {tx[v].delC : v \in Workers \ {w}}

\* conn.commit(): the transaction's changes become the committed rows
Commit(w) == Apply(db, tx[w])

\* faulty variant: the failure path keeps what the transaction did so far
RollbackKeeps(w) == Apply(db, tx[w])

\* conn.rollback(): the committed rows stay as they are
Rollback(w) == db

----------------------------------------------------------------------------
(* Requests *)

ContactIds == 1..MaxContacts
GroupIds == 1..MaxGroups
ProfileIds == 1..MaxProfiles

ContactPatch(name, email, org) ==
    [full_name |-> name, email |-> email, organization |-> org]
GroupPatch(name, descr) == [group_name |-> name, description |-> descr]
ProfilePatch(handle, url) == [username_or_handle |-> handle, profile_url |-> url]

ContactPatches ==
    {ContactPatch(UNSET, UNSET, UNSET), ContactPatch(NameBo, UNSET, UNSET),
     ContactPatch(UNSET, UNSET, NULL), ContactPatch(UNSET, UNSET, OrgX)}
    \cup {ContactPatch(UNSET, EmailOf(i), UNSET) : i \in ContactIds}

GroupPatches ==
    {GroupPatch(UNSET, UNSET), GroupPatch(UNSET, NULL), GroupPatch(UNSET, DescD)}
    \cup {GroupPatch(GroupNameOf(i), UNSET) : i \in GroupIds}

ProfilePatches ==
    {ProfilePatch(UNSET, UNSET), ProfilePatch(NULL, UNSET), ProfilePatch(HandleH, UNSET)}
    \cup {ProfilePatch(UNSET, UrlOf(i)) : i \in ProfileIds}

Requests ==
    {[op |-> "create_contact", full_name |-> NameAl, email |-> EmailOf(i)] : i \in ContactIds}
    \cup {[op |-> "update_contact", contact_id |-> c, patch |-> p] :
            c \in ContactIds, p \in ContactPatches}
    \cup {[op |-> "delete_contact", contact_id |-> c] : c \in ContactIds}
    \cup {[op |-> "add_contact_to_group", contact_id |-> c, group_id |-> g,
           membership_status |-> st, notes |-> NULL] :
            c \in ContactIds, g \in GroupIds, st \in {"active", "inactive"}}
    \cup {[op |-> "update_group", group_id |-> g, patch |-> p] :
            g \in GroupIds, p \in GroupPatches}
    \cup {[op |-> "update_social_profile", profile_id |-> i, patch |-> p] :
            i \in ProfileIds, p \in ProfilePatches}

Entry(op) ==
    CASE op = "create_contact" -> "cc_check"
      [] op = "update_contact" -> "uc_exists"
      [] op = "delete_contact" -> "dc_exists"
      [] op = "add_contact_to_group" -> "ag_contact"
      [] op = "update_group" -> "ug_build"
      [] op = "update_social_profile" -> "up_exists"
      [] op = "list_contacts" -> "lc_count"
      [] op = "list_groups" -> "lg_query"
      [] op = "create_group" -> "cg_insert"
      [] op = "delete_group" -> "dg_delete"
      [] op = "remove_contact_from_group" -> "rg_delete"
      [] op = "create_social_profile" -> "cs_contact"
      [] op = "delete_social_profile" -> "ds_delete"
      [] op = "edit_contact" -> "ec_update"
      [] op = "new_contact" -> "nc_insert"

\* the steps of a handler that call the store
StoreSteps ==
    {"cc_check", "cc_insert", "uc_exists", "uc_email", "uc_write",
     "dc_exists", "dc_members", "dc_contact", "dc_commit",
     "ag_contact", "ag_group", "ag_member", "ag_insert",
     "ug_write", "up_exists", "up_write", "lc_count", "lc_fetch", "lg_query",
     "cg_insert", "dg_delete", "rg_delete", "cs_contact", "cs_insert", "ds_delete",
     "ec_update", "nc_insert"}

----------------------------------------------------------------------------
(* Bookkeeping shared by the handlers *)

Goto(w, label) ==
    /\ pc' = [pc EXCEPT ![w] = label]
    /\ trail' = [trail EXCEPT ![w] = Append(@, pc[w])]
    /\ UNCHANGED <<code, outcome, resp, conn, pool>>

\* the handlers of the contacts router take their connection as a
\* dependency and hold it for the whole request
ConnectionOps ==
    {"create_contact", "update_contact", "delete_contact", "add_contact_to_group",
     "remove_contact_from_group", "list_contacts"}

\* self.pool.getconn() finds a connection: fewer than maxconn are out
HasRoom == Cardinality(pool.used) < pool.size

\* conn = self.pool.getconn()
GetConn(p, w) == [p EXCEPT !.used = @ \cup {w}]

\* faulty variant: the connection is put back only when the body did not
\* raise
PutConnUnlessRaised(p, w, raised) ==
    IF raised THEN p ELSE [p EXCEPT !.used = @ \ {w}]

\* finally: self.pool.putconn(conn)
PutConn(p, w, raised) == [p EXCEPT !.used = @ \ {w}]

\* the request ends with HTTP status c and hands its connection back in
\* transaction status st; the pool discards whatever the transaction had not
\* committed
FinishIn(w, c, why, body, st) ==
    /\ pc' = [pc EXCEPT ![w] = "done"]
    /\ trail' = [trail EXCEPT ![w] = <<>>]
    /\ code' = [code EXCEPT ![w] = c]
    /\ outcome' = [outcome EXCEPT ![w] = why]
    /\ resp' = [resp EXCEPT ![w] = body]
    /\ tx' = [tx EXCEPT ![w] = NoTx]
    /\ conn' = [conn EXCEPT ![w] = st]
    /\ pool' = PutConn(pool, w, c >= 400)

\* the handler ended its transaction with commit() or rollback() before it
\* returned or raised
Finish(w, c, why, body) == FinishIn(w, c, why, body, "idle")

\* the handler returned or raised HTTPException after a statement, with
\* neither commit() nor rollback()
FinishOpen(w, c, why, body) == FinishIn(w, c, why, body, "intrans")

Returned(id, row) == [id |-> id, row |-> row]

InitStore ==
    /\ \E s \in SeedShapes :
        /\ db = SeedDb(s[1], s[2])
        /\ nextContactId = s[1] + 1
        /\ nextGroupId = s[2] + 1
        /\ nextProfileId = Len(SeedDb(s[1], s[2]).profiles) + 1
    /\ clock = 0
    /\ req = [w \in Workers |-> NoReq]
    /\ pc = [w \in Workers |-> "idle"]
    /\ tx = [w \in Workers |-> NoTx]
    /\ pre = [w \in Workers |-> EmptyDb]
    /\ now = [w \in Workers |-> 0]
    /\ code = [w \in Workers |-> 0]
    /\ outcome = [w \in Workers |-> "none"]
    /\ resp = [w \in Workers |-> NoRow]
    /\ trail = [w \in Workers |-> <<>>]
    /\ conn = [w \in Workers |-> "none"]

\* SimpleConnectionPool(1, settings.db_pool_size, ...): no connection is out
NewPool(size) == [size |-> size, used |-> {}]

\* the pool has a connection for every request that can be in progress
\* (db_pool_size defaults to 10)
Init == InitStore /\ pool = NewPool(Cardinality(Workers))

\* a request arrives and is given to worker w; the workers are alike, so
\* the first request of a run is given to the first of them
FirstWorker == "w1"

\* the request r is given to w.  A handler of the contacts router gets its
\* connection first; when the pool has none left getconn() raises PoolError
\* and the request is answered 500 without having held a connection
Begin(w, r) ==
    /\ req' = [req EXCEPT ![w] = r]
    /\ clock' = clock + 1
    /\ now' = [now EXCEPT ![w] = clock + 1]
    /\ pre' = [pre EXCEPT ![w] = db]
    /\ IF r.op \in ConnectionOps /\ ~HasRoom
       THEN /\ pc' = [pc EXCEPT ![w] = "done"]
            /\ code' = [code EXCEPT ![w] = 500]
            /\ outcome' = [outcome EXCEPT ![w] = "pool_exhausted"]
            /\ resp' = [resp EXCEPT ![w] = NoRow]
            /\ UNCHANGED pool
       ELSE /\ pc' = [pc EXCEPT ![w] = Entry(r.op)]
            /\ pool' = IF r.op \in ConnectionOps THEN GetConn(pool, w) ELSE pool
            /\ UNCHANGED <<code, outcome, resp>>
    /\ UNCHANGED <<db, nextContactId, nextGroupId, nextProfileId, tx, trail, conn>>

Start(w) ==
    /\ pc[w] = "idle"
    /\ w # FirstWorker => pc[FirstWorker] # "idle"
    /\ \E r \in Requests : Begin(w, r)

\* the steps of list_contacts, whose "except Exception" has no rollback()
UnrolledSteps == {"lc_count", "lc_fetch"}

\* a store call raises (statement timeout, ...): the handler's "except
\* Exception" rolls back and answers 500; list_contacts leaves the failed
\* transaction as it is
Fault(w) ==
    /\ pc[w] \in StoreSteps
    /\ db' = Rollback(w)
    /\ IF pc[w] \in UnrolledSteps
       THEN FinishIn(w, 500, "fault", [at |-> pc[w]], "inerror")
       ELSE Finish(w, 500, "fault", [at |-> pc[w]])
    /\ UNCHANGED <<nextContactId, nextGroupId, nextProfileId, clock, req, pre, now>>

----------------------------------------------------------------------------
(* create_contact *)

\* faulty variant: the duplicate-email check finds nothing
EmailTakenNever(d, email) == FALSE

\* SELECT contact_id FROM contacts WHERE email = %s
EmailTaken(d, email) == \E c \in DOMAIN d.contacts : d.contacts[c].email = email

CreateContactCheck(w) ==
    /\ pc[w] = "cc_check"
    /\ IF EmailTaken(View(w), req[w].email)
       THEN FinishOpen(w, 409, "conflict", NoRow)
       ELSE Goto(w, "cc_insert") /\ UNCHANGED tx
    /\ UNCHANGED <<db, nextContactId, nextGroupId, nextProfileId, clock, req, pre, now>>

CreateContactInsert(w) ==
    /\ pc[w] = "cc_insert"
    /\ IF ContactsEmailKey(db.contacts, req[w].email, 0)
       THEN /\ db' = Rollback(w)
            /\ Finish(w, 500, "unique_violation", NoRow)
            /\ UNCHANGED <<nextContactId, nextGroupId, nextProfileId>>
       ELSE LET row == ContactRow(req[w].full_name, req[w].email, NULL, "active", now[w])
            IN /\ db' = [Commit(w) EXCEPT !.contacts = With(@, nextContactId, row)]
               /\ nextContactId' = nextContactId + 1
               /\ UNCHANGED <<nextGroupId, nextProfileId>>
               /\ Finish(w, 201, "ok", Returned(nextContactId, row))
    /\ UNCHANGED <<clock, req, pre, now>>


----------------------------------------------------------------------------
(* update_contact *)

\* Python truthiness of an optional text: None and "" are falsy
Truthy(v) == v # UNSET /\ v # NULL /\ v # <<>>

\* EmailStr: the text has a local part followed by "@" (the addresses of the
\* model stop there)
IsEmail(text) == \E i \in 2..Len(text) : text[i] = 64

\* Contact(**dict(row)): pydantic validates the row against ContactBase and
\* raises for a full_name that is empty, an email that is no address or a
\* contact_status outside the three states
ValidContact(row) ==
    /\ Len(row.full_name) >= 1
    /\ IsEmail(row.email)
    /\ row.contact_status \in {"active", "inactive", "archived"}

\* faulty variant: unset fields are not dropped from the patch
ContactFieldsWithUnset(patch) == DOMAIN patch

\* contact_data.dict(exclude_unset=True): the fields the request carries
ContactFields(patch) == {f \in DOMAIN patch : patch[f] # UNSET}

\* faulty variant: the columns the patch leaves out are written as well
ContactAssignEvery(row, patch, at) ==
    [f \in DOMAIN row |->
        IF f \in DOMAIN patch THEN patch[f]
        ELSE IF f = "updated_at" THEN at
        ELSE IF f = "version" THEN row.version + 1
        ELSE row[f]]

\* SET <field> = %s, ..., updated_at = NOW(), version = version + 1
ContactAssign(row, patch, at) ==
    [f \in DOMAIN row |->
        IF f \in ContactFields(patch) THEN patch[f]
        ELSE IF f = "updated_at" THEN at
        ELSE IF f = "version" THEN row.version + 1
        ELSE row[f]]

\* faulty variant: the updated contact's own row counts as a holder
EmailTakenByAny(d, email, self) == \E c \in DOMAIN d.contacts : d.contacts[c].email = email

\* SELECT contact_id FROM contacts WHERE email = %s AND contact_id != %s
EmailTakenByOther(d, email, self) ==
    \E c \in DOMAIN d.contacts : c # self /\ d.contacts[c].email = email

UpdateContactExists(w) ==
    /\ pc[w] = "uc_exists"
    /\ IF req[w].contact_id \notin DOMAIN View(w).contacts
       THEN FinishOpen(w, 404, "not_found", NoRow)
       ELSE Goto(w, "uc_email") /\ UNCHANGED tx
    /\ UNCHANGED <<db, nextContactId, nextGroupId, nextProfileId, clock, req, pre, now>>

UpdateContactEmail(w) ==
    /\ pc[w] = "uc_email"
    /\ IF /\ Truthy(req[w].patch.email)
          /\ EmailTakenByOther(View(w), req[w].patch.email, req[w].contact_id)
       THEN FinishOpen(w, 409, "conflict", NoRow)
       ELSE Goto(w, "uc_write") /\ UNCHANGED tx
    /\ UNCHANGED <<db, nextContactId, nextGroupId, nextProfileId, clock, req, pre, now>>

\* faulty variant: the UPDATE works on the row as it was when the request
\* began
RowAtStart(w, c) == IF c \in DOMAIN pre[w].contacts THEN pre[w].contacts[c]
                    ELSE View(w).contacts[c]

\* the row the UPDATE assigns to: once the row's lock is held the statement
\* reads the latest committed row, so version + 1 counts from there
RowToUpdate(w, c) == View(w).contacts[c]

UpdateContactWrite(w) ==
    LET c == req[w].contact_id
        patch == req[w].patch
    IN
    /\ pc[w] = "uc_write"
    /\ IF ContactFields(patch) = {}
       THEN \* SELECT * ... ; return Contact(**dict(cursor.fetchone()))
            /\ IF c \notin DOMAIN View(w).contacts
               THEN Finish(w, 500, "no_row", NoRow)
               ELSE IF ~ValidContact(View(w).contacts[c])
               THEN Finish(w, 500, "response_invalid", NoRow)
               ELSE FinishOpen(w, 200, "unchanged", Returned(c, View(w).contacts[c]))
            /\ db' = Rollback(w)
       ELSE \* UPDATE ... RETURNING * ; db.commit()
            /\ c \notin LockedContacts(w)
            /\ IF c \notin DOMAIN View(w).contacts
               THEN /\ db' = Commit(w)
                    /\ Finish(w, 500, "no_row", NoRow)
               ELSE IF /\ "email" \in ContactFields(patch)
                       /\ ContactsEmailKey(db.contacts, patch.email, c)
               THEN /\ db' = Rollback(w)
                    /\ Finish(w, 500, "unique_violation", NoRow)
               ELSE \* the commit comes before the response is built
                    LET row == ContactAssign(RowToUpdate(w, c), patch, now[w])
                    IN /\ db' = [Commit(w) EXCEPT !.contacts[c] = row]
                       /\ IF ValidContact(row)
                          THEN Finish(w, 200, "ok", Returned(c, row))
                          ELSE Finish(w, 500, "response_invalid", NoRow)
    /\ UNCHANGED <<nextContactId, nextGroupId, nextProfileId, clock, req, pre, now>>

----------------------------------------------------------------------------
(* delete_contact *)

\* faulty variant: the contact row is deleted before its memberships
DeleteContactOrderSwapped == <<"dc_contact", "dc_members", "dc_commit">>

\* the statements after the existence check, in the order of the source
DeleteContactOrder == <<"dc_members", "dc_contact", "dc_commit">>

DeleteContactAfter(label) ==
    LET i == CHOOSE j \in 1..Len(DeleteContactOrder) : DeleteContactOrder[j] = label
    IN DeleteContactOrder[i + 1]

DeleteContactExists(w) ==
    /\ pc[w] = "dc_exists"
    /\ IF req[w].contact_id \notin DOMAIN View(w).contacts
       THEN FinishOpen(w, 404, "not_found", NoRow)
       ELSE Goto(w, DeleteContactOrder[1]) /\ UNCHANGED tx
    /\ UNCHANGED <<db, nextContactId, nextGroupId, nextProfileId, clock, req, pre, now>>

\* DELETE FROM contact_group_memberships WHERE contact_id = %s
DeleteContactMembers(w) ==
    LET keys == {MemberKey(m) : m \in MembersOfContact(View(w).members, req[w].contact_id)}
    IN
    /\ pc[w] = "dc_members"
    /\ keys \cap LockedMembers(w) = {}
    /\ tx' = [tx EXCEPT ![w].delM = @ \cup keys]
    /\ Goto(w, DeleteContactAfter("dc_members"))
    /\ UNCHANGED <<db, nextContactId, nextGroupId, nextProfileId, clock, req, pre, now>>

\* DELETE FROM contacts WHERE contact_id = %s
DeleteContactRow(w) ==
    LET c == req[w].contact_id
    IN
    /\ pc[w] = "dc_contact"
    /\ c \notin LockedContacts(w)
    /\ IF c \in DOMAIN View(w).contacts /\ ContactReferenced(View(w), c)
       THEN /\ db' = Rollback(w)
            /\ Finish(w, 500, "fk_violation", NoRow)
       ELSE /\ tx' = [tx EXCEPT ![w].delC = @ \cup ({c} \cap DOMAIN db.contacts)]
            /\ Goto(w, DeleteContactAfter("dc_contact"))
            /\ UNCHANGED db
    /\ UNCHANGED <<nextContactId, nextGroupId, nextProfileId, clock, req, pre, now>>

\* db.commit()
DeleteContactCommit(w) ==
    /\ pc[w] = "dc_commit"
    /\ db' = Commit(w)
    /\ Finish(w, 204, "ok", NoRow)
    /\ UNCHANGED <<nextContactId, nextGroupId, nextProfileId, clock, req, pre, now>>

----------------------------------------------------------------------------
(* add_contact_to_group *)

\* faulty variant: the existence checks find a row for every identifier
RowExistsAlways(table, id) == TRUE

\* SELECT 1 FROM <table> WHERE <key> = %s; cursor.fetchone()
RowExists(table, id) == id \in DOMAIN table

AddMemberContact(w) ==
    /\ pc[w] = "ag_contact"
    /\ IF ~RowExists(View(w).contacts, req[w].contact_id)
       THEN FinishOpen(w, 404, "contact_not_found", NoRow)
       ELSE Goto(w, "ag_group") /\ UNCHANGED tx
    /\ UNCHANGED <<db, nextContactId, nextGroupId, nextProfileId, clock, req, pre, now>>

AddMemberGroup(w) ==
    /\ pc[w] = "ag_group"
    /\ IF ~RowExists(View(w).groups, req[w].group_id)
       THEN FinishOpen(w, 404, "group_not_found", NoRow)
       ELSE Goto(w, "ag_member") /\ UNCHANGED tx
    /\ UNCHANGED <<db, nextContactId, nextGroupId, nextProfileId, clock, req, pre, now>>

\* faulty variant: the membership check finds nothing
IsMemberNever(d, c, g) == FALSE

\* SELECT 1 FROM contact_group_memberships WHERE contact_id = %s AND group_id = %s
IsMember(d, c, g) == \E m \in d.members : m.contact_id = c /\ m.group_id = g

AddMemberCheck(w) ==
    /\ pc[w] = "ag_member"
    /\ IF IsMember(View(w), req[w].contact_id, req[w].group_id)
       THEN FinishOpen(w, 409, "conflict", NoRow)
       ELSE Goto(w, "ag_insert") /\ UNCHANGED tx
    /\ UNCHANGED <<db, nextContactId, nextGroupId, nextProfileId, clock, req, pre, now>>

\* INSERT INTO contact_group_memberships ... ; db.commit()
AddMemberInsert(w) ==
    LET c == req[w].contact_id
        g == req[w].group_id
    IN
    /\ pc[w] = "ag_insert"
    /\ <<c, g>> \notin LockedMembers(w)
    /\ c \notin LockedContacts(w)
    /\ IF MembershipsKey(db.members, c, g)
       THEN /\ db' = Rollback(w)
            /\ Finish(w, 500, "unique_violation", NoRow)
       ELSE IF c \notin DOMAIN db.contacts \/ g \notin DOMAIN db.groups
       THEN /\ db' = Rollback(w)
            /\ Finish(w, 500, "fk_violation", NoRow)
       ELSE /\ db' = [Commit(w) EXCEPT !.members =
                        @ \cup {MemberRow(c, g, req[w].membership_status, req[w].notes, now[w])}]
            /\ Finish(w, 201, "ok", NoRow)
    /\ UNCHANGED <<nextContactId, nextGroupId, nextProfileId, clock, req, pre, now>>

----------------------------------------------------------------------------
(* update_group *)

\* the "is not None" tests: a field left out and a field sent as null both
\* arrive as None
GroupFields(patch) == {f \in DOMAIN patch : patch[f] # UNSET /\ patch[f] # NULL}

\* SET group_name = %s, description = %s
GroupAssign(row, patch) ==
    [f \in DOMAIN row |-> IF f \in GroupFields(patch) THEN patch[f] ELSE row[f]]

\* SELECT COUNT(*) FROM contact_group_memberships WHERE group_id = %s
MemberRowCount(d, g) == Cardinality(MembersOfGroup(d.members, g))

\* faulty variant: every store error is answered 500
GroupsStatusGeneric(err) == 500

\* except Exception: "unique" in str(e).lower(): 409, else 500.  err is the
\* kind of store error; only the message of a unique violation ("duplicate
\* key value violates unique constraint ...") holds the word
GroupsStatusFor(err) == IF err = "unique_violation" THEN 409 ELSE 500

UpdateGroupBuild(w) ==
    /\ pc[w] = "ug_build"
    /\ IF GroupFields(req[w].patch) = {}
       THEN Finish(w, 400, "no_fields", NoRow)
       ELSE Goto(w, "ug_write") /\ UNCHANGED tx
    /\ UNCHANGED <<db, nextContactId, nextGroupId, nextProfileId, clock, req, pre, now>>

\* with get_db_cursor(): UPDATE ... RETURNING ...; SELECT COUNT(*) ...; commit
UpdateGroupWrite(w) ==
    LET g == req[w].group_id
        patch == req[w].patch
    IN
    /\ pc[w] = "ug_write"
    /\ HasRoom
    /\ IF g \notin DOMAIN db.groups
       THEN /\ db' = Rollback(w)
            /\ Finish(w, 404, "not_found", NoRow)
       ELSE IF /\ "group_name" \in GroupFields(patch)
               /\ GroupsNameKey(db.groups, patch.group_name, g)
       THEN /\ db' = Rollback(w)
            /\ Finish(w, GroupsStatusFor("unique_violation"), "unique_violation", NoRow)
       ELSE LET row == GroupAssign(db.groups[g], patch)
            IN /\ db' = [Commit(w) EXCEPT !.groups[g] = row]
               /\ Finish(w, 200, "ok",
                         [id |-> g, row |-> row, member_count |-> MemberRowCount(db, g)])
    /\ UNCHANGED <<nextContactId, nextGroupId, nextProfileId, clock, req, pre, now>>

----------------------------------------------------------------------------
(* update_social_profile: each execute_query is a transaction of its own *)

ProfileFields(patch) == {f \in DOMAIN patch : patch[f] # UNSET /\ patch[f] # NULL}

\* SET <field> = %s, ..., updated_at = CURRENT_TIMESTAMP, version = version + 1
ProfileAssign(row, patch, at) ==
    [f \in DOMAIN row |->
        IF f \in ProfileFields(patch) THEN patch[f]
        ELSE IF f = "updated_at" THEN at
        ELSE IF f = "version" THEN row.version + 1
        ELSE row[f]]

\* faulty variant: every store error is answered 500
ProfilesStatusGeneric(err) == 500

\* except Exception: "duplicate key value" in str(e).lower(): 400, else 500
ProfilesStatusFor(err) == IF err = "unique_violation" THEN 400 ELSE 500

UpdateProfileExists(w) ==
    /\ pc[w] = "up_exists"
    /\ HasRoom
    /\ IF req[w].profile_id \notin DOMAIN db.profiles
       THEN Finish(w, 404, "not_found", NoRow)
       ELSE IF ProfileFields(req[w].patch) = {}
       THEN Finish(w, 400, "no_fields", NoRow)
       ELSE Goto(w, "up_write") /\ UNCHANGED tx
    /\ UNCHANGED <<db, nextContactId, nextGroupId, nextProfileId, clock, req, pre, now>>

UpdateProfileWrite(w) ==
    LET i == req[w].profile_id
        patch == req[w].patch
    IN
    /\ pc[w] = "up_write"
    /\ HasRoom
    /\ IF i \notin DOMAIN db.profiles
       THEN /\ db' = Commit(w)
            /\ Finish(w, 500, "no_row", NoRow)
       ELSE IF /\ "profile_url" \in ProfileFields(patch)
               /\ ProfilesUrlKey(db.profiles, db.profiles[i].contact_id, patch.profile_url, i)
       THEN /\ db' = Rollback(w)
            /\ Finish(w, ProfilesStatusFor("unique_violation"), "unique_violation", NoRow)
       ELSE LET row == ProfileAssign(db.profiles[i], patch, now[w])
            IN /\ db' = [Commit(w) EXCEPT !.profiles[i] = row]
               /\ Finish(w, 200, "ok", Returned(i, row))
    /\ UNCHANGED <<nextContactId, nextGroupId, nextProfileId, clock, req, pre, now>>

----------------------------------------------------------------------------
(* The other requests: groups and social profiles created and deleted, a   *)
(* membership removed, and the HTML forms of main.py that write contacts   *)
(* without going through the API.                                          *)

MoreRequests ==
    {[op |-> "create_group", group_name |-> GroupNameOf(i), description |-> NULL] :
        i \in GroupIds}
    \cup {[op |-> "delete_group", group_id |-> g] : g \in GroupIds}
    \cup {[op |-> "remove_contact_from_group", contact_id |-> c, group_id |-> g] :
            c \in ContactIds, g \in GroupIds}
    \cup {[op |-> "create_social_profile", contact_id |-> c, platform |-> "Twitter",
           username_or_handle |-> NULL, profile_url |-> UrlOf(i), notes |-> NULL] :
            c \in ContactIds, i \in ProfileIds}
    \cup {[op |-> "delete_social_profile", profile_id |-> i] : i \in ProfileIds}
    \cup {[op |-> "edit_contact", contact_id |-> c, full_name |-> NameBo,
           email |-> e, organization |-> OrgX, contact_status |-> "inactive"] :
            c \in ContactIds, e \in {EmailOf(i) : i \in ContactIds} \cup {NotAnEmail}}
    \cup {[op |-> "new_contact", full_name |-> NameAl, email |-> EmailOf(i),
           organization |-> NULL, contact_status |-> "active"] : i \in ContactIds}

StartMore(w) ==
    /\ pc[w] = "idle"
    /\ w # FirstWorker => pc[FirstWorker] # "idle"
    /\ \E r \in MoreRequests : Begin(w, r)

(* groups.create_group *)

\* with get_db_cursor(): INSERT INTO groups ... RETURNING ...; commit.  A
\* violation of the name key reaches "except Exception", whose message holds
\* "unique": 409
CreateGroup(w) ==
    /\ pc[w] = "cg_insert"
    /\ HasRoom
    /\ IF GroupsNameKey(db.groups, req[w].group_name, NoId)
       THEN /\ db' = Rollback(w)
            /\ Finish(w, GroupsStatusFor("unique_violation"), "unique_violation", NoRow)
            /\ UNCHANGED nextGroupId
       ELSE LET row == GroupRow(req[w].group_name, req[w].description, now[w])
            IN /\ db' = [Commit(w) EXCEPT !.groups = With(@, nextGroupId, row)]
               /\ nextGroupId' = nextGroupId + 1
               /\ Finish(w, 201, "ok", [id |-> nextGroupId, row |-> row, member_count |-> 0])
    /\ UNCHANGED <<nextContactId, nextProfileId, clock, req, pre, now>>

(* groups.delete_group *)

\* with get_db_cursor(): DELETE FROM groups WHERE group_id = %s RETURNING
\* group_id; commit.  The foreign-key check waits for a transaction that is
\* deleting a membership of the group.
DeleteGroup(w) ==
    LET g == req[w].group_id
    IN
    /\ pc[w] = "dg_delete"
    /\ HasRoom
    /\ {MemberKey(m) : m \in MembersOfGroup(db.members, g)} \cap LockedMembers(w) = {}
    /\ IF g \notin DOMAIN db.groups
       THEN /\ db' = Rollback(w)
            /\ Finish(w, 404, "not_found", NoRow)
       ELSE IF GroupReferenced(db, g)
       THEN \* delete_group answers every store error 500
            /\ db' = Rollback(w)
            /\ Finish(w, 500, "fk_violation", NoRow)
       ELSE /\ db' = [Commit(w) EXCEPT !.groups = Without(@, {g})]
            /\ Finish(w, 204, "ok", NoRow)
    /\ UNCHANGED <<nextContactId, nextGroupId, nextProfileId, clock, req, pre, now>>

(* contacts.remove_contact_from_group *)

\* faulty variant: the DELETE names the contact only
RemoveWhereContact(m, c, g) == m.contact_id = c

\* WHERE contact_id = %s AND group_id = %s
RemoveWhere(m, c, g) == m.contact_id = c /\ m.group_id = g

\* DELETE FROM contact_group_memberships WHERE contact_id = %s AND
\* group_id = %s; rowcount 0: 404; else db.commit()
RemoveMember(w) ==
    LET c == req[w].contact_id
        g == req[w].group_id
    IN
    /\ pc[w] = "rg_delete"
    /\ <<c, g>> \notin LockedMembers(w)
    /\ IF {m \in db.members : RemoveWhere(m, c, g)} = {}
       THEN /\ UNCHANGED db
            /\ FinishOpen(w, 404, "not_found", NoRow)
       ELSE /\ db' = [Commit(w) EXCEPT !.members = {m \in @ : ~RemoveWhere(m, c, g)}]
            /\ Finish(w, 204, "ok", NoRow)
    /\ UNCHANGED <<nextContactId, nextGroupId, nextProfileId, clock, req, pre, now>>

(* social_profiles.create_social_profile: the check of the contact and the *)
(* insert are two execute_query calls, each a transaction of its own       *)

CreateProfileContact(w) ==
    /\ pc[w] = "cs_contact"
    /\ HasRoom
    /\ IF req[w].contact_id \notin DOMAIN db.contacts
       THEN Finish(w, 404, "contact_not_found", NoRow)
       ELSE Goto(w, "cs_insert") /\ UNCHANGED tx
    /\ UNCHANGED <<db, nextContactId, nextGroupId, nextProfileId, clock, req, pre, now>>

\* INSERT INTO social_profiles ... RETURNING ...; "duplicate key value" in the
\* message: 400; any other store error: 500
CreateProfileInsert(w) ==
    LET c == req[w].contact_id
    IN
    /\ pc[w] = "cs_insert"
    /\ HasRoom
    /\ c \notin LockedContacts(w)
    /\ IF ProfilesUrlKey(db.profiles, c, req[w].profile_url, NoId)
       THEN /\ db' = Rollback(w)
            /\ Finish(w, ProfilesStatusFor("unique_violation"), "unique_violation", NoRow)
            /\ UNCHANGED nextProfileId
       ELSE IF c \notin DOMAIN db.contacts
       THEN /\ db' = Rollback(w)
            /\ Finish(w, ProfilesStatusFor("fk_violation"), "fk_violation", NoRow)
            /\ UNCHANGED nextProfileId
       ELSE LET row == ProfileRow(c, req[w].platform, req[w].username_or_handle,
                                  req[w].profile_url, req[w].notes, now[w])
            IN /\ db' = [Commit(w) EXCEPT !.profiles = With(@, nextProfileId, row)]
               /\ nextProfileId' = nextProfileId + 1
               /\ Finish(w, 201, "ok", Returned(nextProfileId, row))
    /\ UNCHANGED <<nextContactId, nextGroupId, clock, req, pre, now>>

(* social_profiles.delete_social_profile *)

\* DELETE FROM social_profiles WHERE profile_id = %s RETURNING profile_id
DeleteProfile(w) ==
    LET i == req[w].profile_id
    IN
    /\ pc[w] = "ds_delete"
    /\ HasRoom
    /\ IF i \notin DOMAIN db.profiles
       THEN /\ db' = Rollback(w)
            /\ Finish(w, 404, "not_found", NoRow)
       ELSE /\ db' = [Commit(w) EXCEPT !.profiles = Without(@, {i})]
            /\ Finish(w, 204, "ok", NoRow)
    /\ UNCHANGED <<nextContactId, nextGroupId, nextProfileId, clock, req, pre, now>>

(* main.update_contact: POST /contacts/{contact_id}/edit *)

\* faulty variant: the stored number is dropped for the default
CoalesceDefault(a, b) == b

\* COALESCE(a, b); a NULL number is NoId
Coalesce(a, b) == IF a = NoId THEN b ELSE a

\* SET full_name = %s, email = %s, ..., updated_at = CURRENT_TIMESTAMP,
\* version = COALESCE(version, 0) + 1: the form sets every column
FormAssign(row, form, at) ==
    [f \in DOMAIN row |->
        IF f \in DOMAIN form \ {"op", "contact_id"} THEN form[f]
        ELSE IF f = "updated_at" THEN at
        ELSE IF f = "version" THEN Coalesce(row.version, 0) + 1
        ELSE row[f]]

\* execute_query(update_query, ...); no row returned: the handler raises and
\* answers 500, as it does for any store error
EditContact(w) ==
    LET c == req[w].contact_id
    IN
    /\ pc[w] = "ec_update"
    /\ HasRoom
    /\ c \notin LockedContacts(w)
    /\ IF c \notin DOMAIN db.contacts
       THEN /\ db' = Commit(w)
            /\ Finish(w, 500, "no_row", NoRow)
       ELSE IF ContactsEmailKey(db.contacts, req[w].email, c)
       THEN /\ db' = Rollback(w)
            /\ Finish(w, 500, "unique_violation", NoRow)
       ELSE /\ db' = [Commit(w) EXCEPT !.contacts[c] = FormAssign(@, req[w], now[w])]
            /\ Finish(w, 302, "ok", NoRow)
    /\ UNCHANGED <<nextContactId, nextGroupId, nextProfileId, clock, req, pre, now>>

(* main.create_contact: POST /contacts/new *)

\* execute_query(insert_query, ...): no duplicate-email check before it
NewContact(w) ==
    /\ pc[w] = "nc_insert"
    /\ HasRoom
    /\ IF ContactsEmailKey(db.contacts, req[w].email, NoId)
       THEN /\ db' = Rollback(w)
            /\ Finish(w, 500, "unique_violation", NoRow)
            /\ UNCHANGED nextContactId
       ELSE LET row == ContactRow(req[w].full_name, req[w].email, req[w].organization,
                                  req[w].contact_status, now[w])
            IN /\ db' = [Commit(w) EXCEPT !.contacts = With(@, nextContactId, row)]
               /\ nextContactId' = nextContactId + 1
               /\ Finish(w, 302, "ok", NoRow)
    /\ UNCHANGED <<nextGroupId, nextProfileId, clock, req, pre, now>>

----------------------------------------------------------------------------
(* Text: ILIKE and ORDER BY *)

Lower(ch) == IF ch >= 65 /\ ch <= 90 THEN ch + 32 ELSE ch

\* text ILIKE pattern: % (37) matches any run of characters, _ (95) any one
RECURSIVE ILike(_, _)
ILike(text, pattern) ==
    IF pattern = <<>> THEN text = <<>>
    ELSE IF Head(pattern) = 37
         THEN \/ ILike(text, Tail(pattern))
              \/ text # <<>> /\ ILike(Tail(text), pattern)
    ELSE /\ text # <<>>
         /\ Head(pattern) = 95 \/ Lower(Head(text)) = Lower(Head(pattern))
         /\ ILike(Tail(text), Tail(pattern))

\* a NULL column matches nothing
ColumnILike(value, pattern) == value # NULL /\ ILike(value, pattern)

\* text order, character by character
RECURSIVE TextLE(_, _)
TextLE(a, b) ==
    IF a = <<>> THEN TRUE
    ELSE IF b = <<>> THEN FALSE
    ELSE IF Head(a) # Head(b) THEN Head(a) < Head(b)
    ELSE TextLE(Tail(a), Tail(b))

\* ORDER BY key: every order of the keys S that is ascending in key[_];
\* rows with equal keys come in whatever order the store produces them
RECURSIVE SortedOrders(_, _)
SortedOrders(key, S) ==
    IF S = {} THEN {<<>>}
    ELSE LET least == {c \in S : \A e \in S : TextLE(key[c], key[e])}
         IN UNION {{<<c>> \o rest : rest \in SortedOrders(key, S \ {c})} : c \in least}

Min(a, b) == IF a < b THEN a ELSE b

\* LIMIT n OFFSET k
LimitOffset(s, n, k) == SubSeq(s, k + 1, Min(k + n, Len(s)))

----------------------------------------------------------------------------
(* list_contacts *)

\* the WHERE clause built from the filters the request carries
\* faulty variant: a membership of any status counts
AnyMember(d, c, g) == \E m \in d.members : m.contact_id = c /\ m.group_id = g

\* EXISTS (SELECT 1 FROM contact_group_memberships cgm WHERE cgm.contact_id =
\* c.contact_id AND cgm.group_id = %s AND cgm.membership_status = 'active')
ActiveMember(d, c, g) ==
    \E m \in d.members : /\ m.contact_id = c
                         /\ m.group_id = g
                         /\ m.membership_status = "active"

ContactMatches(d, c, r) ==
    /\ Truthy(r.search) =>
          LET term == <<37>> \o r.search \o <<37>>
          IN \/ ColumnILike(d.contacts[c].full_name, term)
             \/ ColumnILike(d.contacts[c].email, term)
             \/ ColumnILike(d.contacts[c].organization, term)
    /\ r.group_id # NoId => ActiveMember(d, c, r.group_id)
    /\ r.status # "" => d.contacts[c].contact_status = r.status

Matching(d, r) == {c \in DOMAIN d.contacts : ContactMatches(d, c, r)}

\* faulty variant: the offset skips the requested page as well
OffsetOnePageOn(page, per_page) == page * per_page

Offset(page, per_page) == (page - 1) * per_page
HasNext(total, page, per_page) == total > page * per_page
HasPrev(page) == page > 1

\* SELECT COUNT(*) ... WHERE ...
ListContactsCount(w) ==
    /\ pc[w] = "lc_count"
    /\ pc' = [pc EXCEPT ![w] = "lc_fetch"]
    /\ trail' = [trail EXCEPT ![w] = Append(@, pc[w])]
    /\ resp' = [resp EXCEPT ![w] = [total |-> Cardinality(Matching(View(w), req[w]))]]
    /\ UNCHANGED <<db, nextContactId, nextGroupId, nextProfileId, clock, req, tx, pre, now, code, outcome, conn, pool>>

\* SELECT ... WHERE ... ORDER BY c.full_name LIMIT %s OFFSET %s
ListContactsFetch(w) ==
    LET r == req[w]
        d == View(w)
        total == resp[w].total
        names == [c \in DOMAIN d.contacts |-> d.contacts[c].full_name]
    IN
    /\ pc[w] = "lc_fetch"
    /\ \E order \in SortedOrders(names, Matching(d, r)) :
          LET ids == LimitOffset(order, r.per_page, Offset(r.page, r.per_page))
          IN FinishOpen(w, 200, "ok",
                    [contacts |-> [i \in 1..Len(ids) |-> Returned(ids[i], d.contacts[ids[i]])],
                     total |-> total, page |-> r.page, per_page |-> r.per_page,
                     has_next |-> HasNext(total, r.page, r.per_page),
                     has_prev |-> HasPrev(r.page)])
    /\ db' = Rollback(w)
    /\ UNCHANGED <<nextContactId, nextGroupId, nextProfileId, clock, req, pre, now>>

----------------------------------------------------------------------------
(* list_groups *)

\* faulty variant: an inner join: groups without membership rows drop out
GroupInnerJoin(d) ==
    {[group_id |-> m.group_id, contact_id |-> m.contact_id] :
        m \in {n \in d.members : n.group_id \in DOMAIN d.groups}}

\* FROM groups g LEFT JOIN contact_group_memberships cgm ON g.group_id = cgm.group_id
GroupJoin(d) ==
    {[group_id |-> m.group_id, contact_id |-> m.contact_id] :
        m \in {n \in d.members : n.group_id \in DOMAIN d.groups}}
    \cup {[group_id |-> g, contact_id |-> NoId] :
            g \in {h \in DOMAIN d.groups : MembersOfGroup(d.members, h) = {}}}

\* COUNT(DISTINCT cgm.contact_id) over the joined rows of group g; the NULL
\* contact_id of an unmatched group is not counted
DistinctMemberCount(joined, g) ==
    Cardinality({j.contact_id : j \in {k \in joined : k.group_id = g}} \ {NoId})

\* get_group: the same join WHERE g.group_id = %s
GroupJoinOf(d, g) == {j \in GroupJoin(d) : j.group_id = g}

\* GROUP BY g.group_id, ... ORDER BY g.group_name
ListGroups(w) ==
    LET d == db
        joined == GroupJoin(d)
        ids == {j.group_id : j \in joined}
        names == [g \in DOMAIN d.groups |-> d.groups[g].group_name]
    IN
    /\ pc[w] = "lg_query"
    /\ HasRoom
    /\ \E order \in SortedOrders(names, ids) :
          Finish(w, 200, "ok",
                 [i \in 1..Len(order) |->
                    [id |-> order[i], row |-> d.groups[order[i]],
                     member_count |-> DistinctMemberCount(joined, order[i])]])
    /\ db' = Commit(w)
    /\ UNCHANGED <<nextContactId, nextGroupId, nextProfileId, clock, req, pre, now>>

----------------------------------------------------------------------------
(* The list queries are checked on stores of their own, one request a run: *)
(* tables of 0..MaxTotal contacts with names all different, and small      *)
(* stores where names tie, memberships are active or inactive and groups   *)
(* may have no member.                                                     *)

PerPages == {1, 2, 20, 100}

ListRequests ==
    {[op |-> "list_contacts", page |-> p, per_page |-> n, search |-> s,
      group_id |-> g, status |-> st] :
        p \in 1..MaxPage, n \in PerPages, s \in {NULL, <<>>, <<97>>, <<95>>},
        g \in {NoId} \cup GroupIds, st \in {"", "active"}}
    \cup {[op |-> "list_groups"]}

\* "A", "B", ... : n contacts, every second one inactive
LargeDb(n) ==
    [EmptyDb EXCEPT !.contacts =
        [i \in 1..n |-> ContactRow(<<64 + i>>, <<96 + i, 64>>, NULL,
                                   IF i % 2 = 1 THEN "active" ELSE "inactive", 0)]]

\* contacts 1 and 2 share a name; membership[c] is contact c's membership in
\* group 1; every contact is an active member of each odd group after it,
\* the even groups have no member
SmallDb(nC, nG, membership) ==
    [contacts |-> [i \in 1..nC |->
                     ContactRow(IF i <= 2 THEN NameAl ELSE NameBo, EmailOf(i),
                                IF i = 1 THEN OrgX ELSE NULL,
                                IF i % 2 = 1 THEN "active" ELSE "inactive", 0)],
     groups   |-> [i \in 1..nG |-> GroupRow(GroupNameOf(i), NULL, 0)],
     members  |-> {MemberRow(c, 1, membership[c], NULL, 0) :
                     c \in {e \in 1..nC : nG >= 1 /\ membership[e] # "none"}}
                  \cup {MemberRow(c, g, "active", NULL, 0) :
                     c \in 1..nC, g \in {h \in 2..nG : h % 2 = 1}},
     profiles |-> <<>>]

ListSeeds ==
    {LargeDb(n) : n \in 0..MaxTotal}
    \cup UNION {{SmallDb(nC, nG, ms) : ms \in [1..nC -> {"none", "active", "inactive"}]} :
                  nC \in 1..MaxContacts, nG \in 0..MaxGroups}

InitList ==
    /\ db \in ListSeeds
    /\ nextContactId = 0
    /\ nextGroupId = 0
    /\ nextProfileId = 0
    /\ clock = 0
    /\ req = [w \in Workers |-> NoReq]
    /\ pc = [w \in Workers |-> "idle"]
    /\ tx = [w \in Workers |-> NoTx]
    /\ pre = [w \in Workers |-> EmptyDb]
    /\ now = [w \in Workers |-> 0]
    /\ code = [w \in Workers |-> 0]
    /\ outcome = [w \in Workers |-> "none"]
    /\ resp = [w \in Workers |-> NoRow]
    /\ trail = [w \in Workers |-> <<>>]
    /\ conn = [w \in Workers |-> "none"]
    /\ pool = NewPool(Cardinality(Workers))

StartList(w) ==
    /\ w = FirstWorker
    /\ pc[w] = "idle"
    /\ \E r \in ListRequests : Begin(w, r)

----------------------------------------------------------------------------

Step(w) ==
    \/ Start(w)
    \/ Fault(w)
    \/ CreateContactCheck(w)
    \/ CreateContactInsert(w)
    \/ UpdateContactExists(w)
    \/ UpdateContactEmail(w)
    \/ UpdateContactWrite(w)
    \/ DeleteContactExists(w)
    \/ DeleteContactMembers(w)
    \/ DeleteContactRow(w)
    \/ DeleteContactCommit(w)
    \/ AddMemberContact(w)
    \/ AddMemberGroup(w)
    \/ AddMemberCheck(w)
    \/ AddMemberInsert(w)
    \/ UpdateGroupBuild(w)
    \/ UpdateGroupWrite(w)
    \/ UpdateProfileExists(w)
    \/ UpdateProfileWrite(w)

Next == \E w \in Workers : Step(w)

\* requests served one after the other: a worker steps only while no other
\* worker's request is in progress
Alone(w) == \A v \in Workers \ {w} : pc[v] \in {"idle", "done"}

NextSeq == \E w \in Workers : Alone(w) /\ Step(w)

Spec == Init /\ [][Next]_vars

SpecSeq == Init /\ [][NextSeq]_vars

\* the steps that take a connection for one with get_db_cursor() block
CursorSteps ==
    {"ug_write", "up_exists", "up_write", "cg_insert", "dg_delete", "cs_contact",
     "cs_insert", "ds_delete", "ec_update", "nc_insert", "lg_query"}

\* with get_db_cursor(): getconn() raises PoolError, no connection is left;
\* the handler's "except Exception" answers 500
PoolExhausted(w) ==
    /\ pc[w] \in CursorSteps
    /\ ~HasRoom
    /\ UNCHANGED db
    /\ Finish(w, 500, "pool_exhausted", NoRow)
    /\ UNCHANGED <<nextContactId, nextGroupId, nextProfileId, clock, req, pre, now>>

\* the requests of the API on a pool smaller than the number of requests in
\* progress
InitPool == InitStore /\ pool \in {NewPool(n) : n \in 1..MaxPool}

NextPool == \E w \in Workers : Step(w) \/ PoolExhausted(w)

SpecPool == InitPool /\ [][NextPool]_vars

\* every request of the API and of the forms
More(w) ==
    \/ StartMore(w)
    \/ CreateGroup(w)
    \/ DeleteGroup(w)
    \/ RemoveMember(w)
    \/ CreateProfileContact(w)
    \/ CreateProfileInsert(w)
    \/ DeleteProfile(w)
    \/ EditContact(w)
    \/ NewContact(w)

NextAll == \E w \in Workers : Step(w) \/ More(w)

NextAllSeq == \E w \in Workers : Alone(w) /\ (Step(w) \/ More(w))

SpecAll == Init /\ [][NextAll]_vars

SpecAllSeq == Init /\ [][NextAllSeq]_vars

NextList ==
    \E w \in Workers :
        \/ StartList(w)
        \/ Fault(w)
        \/ ListContactsCount(w)
        \/ ListContactsFetch(w)
        \/ ListGroups(w)

SpecList == InitList /\ [][NextList]_vars

\* the small stores, where names tie
InitRepeat == InitList /\ db \notin {LargeDb(n) : n \in 0..MaxTotal}

\* after the first list request has been answered, a second one asks again:
\* the same query, for list_contacts with the same filters and page size and
\* any page
StartAgain(w) ==
    /\ w # FirstWorker
    /\ pc[w] = "idle"
    /\ pc[FirstWorker] = "done"
    /\ \E r \in ListRequests :
        /\ r.op = req[FirstWorker].op
        /\ r.op = "list_contacts" =>
              [r EXCEPT !.page = 1] = [req[FirstWorker] EXCEPT !.page = 1]
        /\ Begin(w, r)

NextRepeat ==
    \E w \in Workers :
        \/ StartList(w)
        \/ StartAgain(w)
        \/ Fault(w)
        \/ ListContactsCount(w)
        \/ ListContactsFetch(w)
        \/ ListGroups(w)

SpecRepeat == InitRepeat /\ [][NextRepeat]_vars

----------------------------------------------------------------------------
(* Properties *)

Updates == {"update_contact", "update_group", "update_social_profile"}

\* the fields a patch carries, null included
Carried(patch) == {f \in DOMAIN patch : patch[f] # UNSET}

\* the table and key a request addresses
TableOf(d, r) ==
    CASE r.op = "update_contact" -> d.contacts
      [] r.op = "update_group" -> d.groups
      [] r.op = "update_social_profile" -> d.profiles
TargetOf(r) ==
    CASE r.op = "update_contact" -> r.contact_id
      [] r.op = "update_group" -> r.group_id
      [] r.op = "update_social_profile" -> r.profile_id

\* w's request is the last one to have finished and nothing has run since:
\* pre[w] and db are the committed rows before and after the call
JustFinished(w) ==
    /\ pc[w] = "done"
    /\ \A v \in Workers \ {w} : pc[v] = "idle" \/ (pc[v] = "done" /\ now[v] < now[w])

Faulted(w) == outcome[w] = "fault"

\* C1: a successful update of an existing contact, group or social profile
\* whose patch carries at least one field leaves the persisted version one
\* higher than it was before the call.
C1_VersionPlusOne ==
    \A w \in Workers :
        (/\ JustFinished(w)
         /\ req[w].op \in Updates
         /\ TargetOf(req[w]) \in DOMAIN TableOf(pre[w], req[w])
         /\ Carried(req[w].patch) # {}
         /\ code[w] = 200)
        => /\ TargetOf(req[w]) \in DOMAIN TableOf(db, req[w])
           /\ TableOf(db, req[w])[TargetOf(req[w])].version
                = TableOf(pre[w], req[w])[TargetOf(req[w])].version + 1

\* C2: an update whose patch carries no field writes nothing: the committed
\* rows after the call are the rows before it; on an existing entity
\* update_contact answers 200 with the current row, update_group and
\* update_social_profile answer 400.
C2_EmptyPatchNoWrite ==
    \A w \in Workers :
        (/\ JustFinished(w)
         /\ req[w].op \in Updates
         /\ Carried(req[w].patch) = {})
        => /\ db = pre[w]
           /\ (TargetOf(req[w]) \in DOMAIN TableOf(pre[w], req[w]) /\ ~Faulted(w))
              => IF req[w].op = "update_contact"
                 THEN /\ code[w] = 200
                      /\ resp[w] = Returned(req[w].contact_id,
                                            pre[w].contacts[req[w].contact_id])
                 ELSE code[w] = 400 /\ outcome[w] = "no_fields"

C2_Witness ==
    \E w \in Workers :
        /\ JustFinished(w)
        /\ req[w].op = "update_contact"
        /\ Carried(req[w].patch) = {}
        /\ code[w] = 200
        /\ pre[w].contacts[req[w].contact_id].version > InitialVersion

\* the two requests a and b ran one after the other, a first
InSequence(a, b) ==
    /\ a # b
    /\ pc[a] = "done" /\ pc[b] = "done"
    /\ now[a] < now[b]
    /\ ~Faulted(a) /\ ~Faulted(b)

RowsWithEmail(d, email) == {c \in DOMAIN d.contacts : d.contacts[c].email = email}

\* C3: of two create_contact calls in sequence with the same email, not held
\* by any contact before, the first answers 201 and the second 409, and the
\* only row with that email afterwards is the row the first call returned.
C3_SecondCreateConflicts ==
    \A a, b \in Workers :
        (/\ InSequence(a, b)
         /\ req[a].op = "create_contact" /\ req[b].op = "create_contact"
         /\ req[a].email = req[b].email
         /\ RowsWithEmail(pre[a], req[a].email) = {})
        => /\ code[a] = 201
           /\ code[b] = 409
           /\ RowsWithEmail(db, req[a].email) = {resp[a].id}
           /\ db.contacts[resp[a].id] = resp[a].row
           /\ db = pre[b]

C3_Witness ==
    \E a, b \in Workers :
        /\ InSequence(a, b)
        /\ req[a].op = "create_contact" /\ req[b].op = "create_contact"
        /\ req[a].email = req[b].email
        /\ code[a] = 201 /\ code[b] = 409

\* a create_contact whose duplicate-email check found nothing, so that it
\* went on to the INSERT
PassedEmailCheck(w) ==
    /\ pc[w] = "done"
    /\ req[w].op = "create_contact"
    /\ outcome[w] \in {"ok", "unique_violation"}

\* C4: when two create_contact requests with the same email both pass the
\* duplicate-email check, exactly one insert commits and the other request
\* is answered 409, never 500.
C4_RaceLoserGetsConflict ==
    \A a, b \in Workers :
        (/\ a # b
         /\ PassedEmailCheck(a) /\ PassedEmailCheck(b)
         /\ req[a].email = req[b].email)
        => /\ Cardinality(RowsWithEmail(db, req[a].email)) = 1
           /\ {code[a], code[b]} = {201, 409}

\* C5: delete_contact is atomic.  For a delete_contact request on a contact
\* that existed when it started, with the membership rows M0 the contact
\* had then: in every committed state either the contact row and all of M0
\* are present, or the contact row and every membership row of the contact
\* are gone.
C5_DeleteContactAtomic ==
    \A w \in Workers :
        (/\ req[w].op = "delete_contact"
         /\ req[w].contact_id \in DOMAIN pre[w].contacts)
        => LET c == req[w].contact_id
               M0 == MembersOfContact(pre[w].members, c)
           IN \/ c \in DOMAIN db.contacts /\ M0 \subseteq db.members
              \/ c \notin DOMAIN db.contacts /\ MembersOfContact(db.members, c) = {}

\* a delete_contact on a contact with two memberships failed after its
\* membership delete had run, and all three rows are still there
C5_Witness ==
    \E w \in Workers :
        /\ pc[w] = "done"
        /\ req[w].op = "delete_contact"
        /\ Faulted(w) /\ resp[w].at \in {"dc_contact", "dc_commit"}
        /\ Cardinality(MembersOfContact(pre[w].members, req[w].contact_id)) = 2
        /\ req[w].contact_id \in DOMAIN db.contacts
        /\ MembersOfContact(pre[w].members, req[w].contact_id) \subseteq db.members

Before(s, x, y) ==
    \E i, j \in 1..Len(s) : i < j /\ s[i] = x /\ s[j] = y

\* C6: in delete_contact the membership delete runs before the contact
\* delete: once the contact delete has run, the membership delete has run
\* earlier in the same request and no membership row the transaction sees
\* references the contact.
C6_MembershipsDeletedFirst ==
    \A w \in Workers :
        (req[w].op = "delete_contact" /\ "dc_contact" \in {trail[w][i] : i \in 1..Len(trail[w])})
        => /\ Before(trail[w], "dc_members", "dc_contact")
           /\ MembersOfContact(View(w).members, req[w].contact_id) = {}

C6_Witness ==
    \E w \in Workers :
        /\ pc[w] = "dc_commit"
        /\ req[w].contact_id \in tx[w].delC
        /\ Cardinality(tx[w].delM) = 2

MemberAt(d, c, g) == {m \in d.members : m.contact_id = c /\ m.group_id = g}

\* C7: of two add_contact_to_group calls in sequence for the same contact
\* and group, the first having succeeded, the second answers 409 and the
\* membership row is still the one the first call wrote.
C7_SecondAddConflicts ==
    \A a, b \in Workers :
        (/\ InSequence(a, b)
         /\ req[a].op = "add_contact_to_group" /\ req[b].op = "add_contact_to_group"
         /\ req[a].contact_id = req[b].contact_id
         /\ req[a].group_id = req[b].group_id
         /\ code[a] = 201)
        => /\ code[b] = 409
           /\ db = pre[b]
           /\ MemberAt(db, req[a].contact_id, req[a].group_id)
                = {MemberRow(req[a].contact_id, req[a].group_id,
                             req[a].membership_status, req[a].notes, now[a])}

C7_Witness ==
    \E a, b \in Workers :
        /\ InSequence(a, b)
        /\ req[a].op = "add_contact_to_group" /\ req[b].op = "add_contact_to_group"
        /\ req[a].contact_id = req[b].contact_id
        /\ req[a].group_id = req[b].group_id
        /\ req[a].membership_status # req[b].membership_status
        /\ code[a] = 201 /\ code[b] = 409

\* C8: there is never more than one membership row for a contact and a
\* group, and an add_contact_to_group that the store refuses because the
\* row exists is answered 409, not 500.
C8_DuplicateAddGetsConflict ==
    /\ \A m, n \in db.members : MemberKey(m) = MemberKey(n) => m = n
    /\ \A w \in Workers :
        (/\ pc[w] = "done"
         /\ req[w].op = "add_contact_to_group"
         /\ outcome[w] = "unique_violation")
        => code[w] = 409

Max(a, b) == IF a > b THEN a ELSE b

\* C9: list_contacts, with no write between its two queries: has_next is
\* true exactly when total > page * per_page, has_prev exactly when
\* page > 1, and min(per_page, max(0, total - (page - 1) * per_page)) items
\* come back; page 2 of 25 contacts at 20 a page has 5 items, no next page
\* and a previous one.
C9_Pagination ==
    \A w \in Workers :
        (pc[w] = "done" /\ req[w].op = "list_contacts" /\ code[w] = 200)
        => LET r == req[w]
               total == resp[w].total
               items == Len(resp[w].contacts)
           IN /\ (~Truthy(r.search) /\ r.group_id = NoId /\ r.status = "")
                    => total = Cardinality(DOMAIN db.contacts)
              /\ resp[w].has_next = (total > r.page * r.per_page)
              /\ resp[w].has_prev = (r.page > 1)
              /\ items = Min(r.per_page, Max(0, total - (r.page - 1) * r.per_page))
              /\ (r.page = 2 /\ r.per_page = 20 /\ total = 25)
                    => (~resp[w].has_next /\ resp[w].has_prev /\ items = 5)

C9_Witness ==
    \E w \in Workers :
        /\ pc[w] = "done" /\ req[w].op = "list_contacts" /\ code[w] = 200
        /\ req[w].page = 2 /\ req[w].per_page = 20
        /\ Cardinality(DOMAIN db.contacts) = 25
        /\ resp[w].total = 25
        /\ Len(resp[w].contacts) = 5

\* C10: list_groups returns every persisted group exactly once, and a group
\* without membership rows is returned with member_count 0.
C10_EveryGroupListed ==
    \A w \in Workers :
        (pc[w] = "done" /\ req[w].op = "list_groups" /\ code[w] = 200)
        => /\ \A g \in DOMAIN db.groups :
                Cardinality({i \in 1..Len(resp[w]) : resp[w][i].id = g}) = 1
           /\ \A i \in 1..Len(resp[w]) :
                /\ resp[w][i].id \in DOMAIN db.groups
                /\ MembersOfGroup(db.members, resp[w][i].id) = {}
                     => resp[w][i].member_count = 0

C10_Witness ==
    \E w \in Workers :
        /\ pc[w] = "done" /\ req[w].op = "list_groups" /\ code[w] = 200
        /\ \E i, j \in 1..Len(resp[w]) :
            /\ MembersOfGroup(db.members, resp[w][i].id) = {}
            /\ resp[w][i].member_count = 0
            /\ resp[w][j].member_count > 0

----------------------------------------------------------------------------

Tables == {"contacts", "groups", "profiles"}

\* C11: no step lowers or resets the persisted version of a contact, group
\* or social profile that exists before and after the step.
C11_VersionNeverDecreases ==
    [][\A t \in Tables : \A i \in DOMAIN db[t] \cap DOMAIN db'[t] :
          db'[t][i].version >= db[t][i].version]_vars

\* a contact edited through the form after an API update raised its version
C11_Witness ==
    \E a, b \in Workers :
        /\ InSequence(a, b)
        /\ req[a].op = "update_contact" /\ code[a] = 200 /\ outcome[a] = "ok"
        /\ req[b].op = "edit_contact" /\ code[b] = 302
        /\ req[b].contact_id = req[a].contact_id
        /\ req[a].contact_id \in DOMAIN db.contacts
        /\ db.contacts[req[a].contact_id].version = InitialVersion + 2

\* C12: in every committed state each membership row references a contact
\* that exists and a group that exists.
C12_MembershipsReferToRows ==
    \A m \in db.members :
        m.contact_id \in DOMAIN db.contacts /\ m.group_id \in DOMAIN db.groups

\* an add_contact_to_group that passed its checks of the contact and of the
\* group lost one of them to a concurrent delete_contact or delete_group
C12_Witness ==
    \E a, b \in Workers :
        /\ a # b
        /\ pc[a] = "done" /\ pc[b] = "done"
        /\ req[a].op = "add_contact_to_group" /\ outcome[a] = "fk_violation"
        /\ req[b].op \in {"delete_contact", "delete_group"} /\ code[b] = 204

\* C13: in every committed state each social profile references a contact
\* that exists.
C13_ProfilesReferToContacts ==
    \A i \in DOMAIN db.profiles : db.profiles[i].contact_id \in DOMAIN db.contacts

\* delete_contact was refused for a contact that has social profiles, after
\* a create_social_profile added one more to it
C13_Witness ==
    \E a, b \in Workers :
        /\ a # b
        /\ pc[a] = "done" /\ pc[b] = "done"
        /\ req[a].op = "delete_contact" /\ outcome[a] = "fk_violation"
        /\ req[b].op = "create_social_profile" /\ code[b] = 201
        /\ req[b].contact_id = req[a].contact_id
        /\ resp[b].id \in DOMAIN db.profiles

Failure(c) == c >= 400

\* C14: a mutating call that answers with a failure leaves the committed
\* rows as they were before the call.
C14_FailureLeavesStoreUnchanged ==
    \A w \in Workers : (JustFinished(w) /\ Failure(code[w])) => db = pre[w]

\* C15: update_contact of an existing contact with an email in the patch
\* answers 409 exactly when another contact holds that email; the contact's
\* own current email is no conflict and the update goes through; on a
\* conflict nothing is changed.
C15_EmailConflictExcludesSelf ==
    \A w \in Workers :
        (/\ JustFinished(w)
         /\ req[w].op = "update_contact"
         /\ Truthy(req[w].patch.email)
         /\ req[w].contact_id \in DOMAIN pre[w].contacts
         /\ ~Faulted(w))
        => LET c == req[w].contact_id
               email == req[w].patch.email
               held == \E o \in DOMAIN pre[w].contacts \ {c} : pre[w].contacts[o].email = email
           IN /\ (code[w] = 409) <=> held
              /\ held => db = pre[w]
              /\ pre[w].contacts[c].email = email
                    => /\ code[w] = 200
                       /\ db.contacts[c].version = pre[w].contacts[c].version + 1

C15_Witness ==
    \E w \in Workers :
        /\ JustFinished(w)
        /\ req[w].op = "update_contact"
        /\ req[w].contact_id \in DOMAIN pre[w].contacts
        /\ pre[w].contacts[req[w].contact_id].email = req[w].patch.email
        /\ Cardinality(DOMAIN pre[w].contacts) > 1
        /\ code[w] = 200

TableNameOf(r) ==
    CASE r.op = "update_contact" -> "contacts"
      [] r.op = "update_group" -> "groups"
      [] r.op = "update_social_profile" -> "profiles"

\* C16: after a successful partial update every column the patch does not
\* name, other than updated_at and version, has the value it had before, and
\* every other row of the store is unchanged.
C16_UnnamedColumnsUntouched ==
    \A w \in Workers :
        (/\ JustFinished(w)
         /\ req[w].op \in Updates
         /\ code[w] = 200
         /\ TargetOf(req[w]) \in DOMAIN TableOf(pre[w], req[w]))
        => LET tn == TableNameOf(req[w])
               i == TargetOf(req[w])
               old == pre[w][tn][i]
           IN /\ i \in DOMAIN db[tn]
              /\ \A f \in DOMAIN old \ (Carried(req[w].patch) \cup {"updated_at", "version"}) :
                    db[tn][i][f] = old[f]
              /\ [db EXCEPT ![tn][i] = old] = pre[w]

\* an update_contact that changed only the email of a contact
C16_Witness ==
    \E w \in Workers :
        /\ JustFinished(w)
        /\ req[w].op = "update_contact" /\ code[w] = 200
        /\ Carried(req[w].patch) = {"email"}
        /\ req[w].contact_id \in DOMAIN pre[w].contacts
        /\ pre[w].contacts[req[w].contact_id].email # req[w].patch.email
        /\ db.contacts[req[w].contact_id].email = req[w].patch.email
        /\ db.contacts[req[w].contact_id].full_name = pre[w].contacts[req[w].contact_id].full_name

\* the step with which w's request ends, other than by a fault of the store
Finishing(w) == pc[w] # "done" /\ pc'[w] = "done" /\ outcome'[w] # "fault"

Concrete(v) == v # UNSET /\ v # NULL

UniqueGroupNames ==
    \A g, h \in DOMAIN db.groups :
        g # h => db.groups[g].group_name # db.groups[h].group_name

GroupNameHeld(name, self) ==
    \E h \in DOMAIN db.groups \ {self} : db.groups[h].group_name = name

\* C17: no two groups ever share a name; a create_group with a name that a
\* group holds, and an update_group that renames a group to a name another
\* group holds, answer 409 and leave the store as it is.
C17_GroupNamesUnique ==
    /\ []UniqueGroupNames
    /\ [][\A w \in Workers :
            Finishing(w) =>
              /\ (req[w].op = "create_group" /\ GroupNameHeld(req[w].group_name, NoId))
                    => (code'[w] = 409 /\ db' = db)
              /\ (/\ req[w].op = "update_group" /\ pc[w] = "ug_write"
                  /\ req[w].group_id \in DOMAIN db.groups
                  /\ Concrete(req[w].patch.group_name)
                  /\ GroupNameHeld(req[w].patch.group_name, req[w].group_id))
                    => (code'[w] = 409 /\ db' = db)]_vars

\* two concurrent create_group requests for a new name: one creates the
\* group, the other is answered 409
C17_Witness ==
    \E a, b \in Workers :
        /\ a # b
        /\ pc[a] = "done" /\ pc[b] = "done"
        /\ req[a].op = "create_group" /\ req[b].op = "create_group"
        /\ req[a].group_name = req[b].group_name
        /\ code[a] = 201 /\ code[b] = 409
        /\ ~(\E g \in DOMAIN pre[a].groups : pre[a].groups[g].group_name = req[a].group_name)
        /\ ~(\E g \in DOMAIN pre[b].groups : pre[b].groups[g].group_name = req[b].group_name)

UniqueProfileUrls ==
    \A i, j \in DOMAIN db.profiles :
        (i # j /\ db.profiles[i].contact_id = db.profiles[j].contact_id)
        => db.profiles[i].profile_url # db.profiles[j].profile_url

ProfileUrlHeld(c, url, self) ==
    \E j \in DOMAIN db.profiles \ {self} :
        db.profiles[j].contact_id = c /\ db.profiles[j].profile_url = url

\* C18: no two social profiles of one contact ever share a URL; a create or
\* update that would make such a pair is refused with the "already exists"
\* answer, not a 500, and changes nothing; a URL that only another contact
\* holds is accepted.
C18_ProfileUrlUniquePerContact ==
    /\ []UniqueProfileUrls
    /\ [][\A w \in Workers :
            Finishing(w) =>
              /\ (/\ req[w].op = "create_social_profile" /\ pc[w] = "cs_insert"
                  /\ ProfileUrlHeld(req[w].contact_id, req[w].profile_url, NoId))
                    => (code'[w] \in {400, 409} /\ db' = db)
              /\ (/\ req[w].op = "update_social_profile" /\ pc[w] = "up_write"
                  /\ req[w].profile_id \in DOMAIN db.profiles
                  /\ Concrete(req[w].patch.profile_url)
                  /\ ProfileUrlHeld(db.profiles[req[w].profile_id].contact_id,
                                    req[w].patch.profile_url, req[w].profile_id))
                    => (code'[w] \in {400, 409} /\ db' = db)
              /\ (/\ req[w].op = "create_social_profile" /\ pc[w] = "cs_insert"
                  /\ req[w].contact_id \in DOMAIN db.contacts
                  /\ ~ProfileUrlHeld(req[w].contact_id, req[w].profile_url, NoId)
                  /\ \E j \in DOMAIN db.profiles : db.profiles[j].profile_url = req[w].profile_url)
                    => (code'[w] = 201 /\ resp'[w].id \in DOMAIN db'.profiles)]_vars

\* a URL held by another contact was accepted for a contact, and a second
\* create of the same URL for that contact was refused
C18_Witness ==
    \E a, b \in Workers :
        /\ a # b
        /\ pc[a] = "done" /\ pc[b] = "done"
        /\ req[a].op = "create_social_profile" /\ req[b].op = "create_social_profile"
        /\ req[a].contact_id = req[b].contact_id
        /\ req[a].profile_url = req[b].profile_url
        /\ code[a] = 201 /\ code[b] = 400
        /\ \E j \in DOMAIN db.profiles :
              /\ db.profiles[j].contact_id # req[a].contact_id
              /\ db.profiles[j].profile_url = req[a].profile_url

\* C19: list_contacts with a group_id returns only contacts that have an
\* active membership in that group, and counts only those in total; a
\* contact whose membership in the group is inactive is in neither.
C19_GroupFilterActiveOnly ==
    \A w \in Workers :
        (/\ pc[w] = "done" /\ req[w].op = "list_contacts" /\ code[w] = 200
         /\ req[w].group_id # NoId)
        => LET g == req[w].group_id
               active == {c \in DOMAIN db.contacts :
                            \E m \in db.members : /\ MemberKey(m) = <<c, g>>
                                                  /\ m.membership_status = "active"}
           IN /\ \A i \in 1..Len(resp[w].contacts) : resp[w].contacts[i].id \in active
              /\ resp[w].total <= Cardinality(active)
              /\ (~Truthy(req[w].search) /\ req[w].status = "")
                    => resp[w].total = Cardinality(active)

C19_Witness ==
    \E w \in Workers :
        /\ pc[w] = "done" /\ req[w].op = "list_contacts" /\ code[w] = 200
        /\ req[w].group_id # NoId
        /\ \E m \in db.members : /\ m.group_id = req[w].group_id
                                 /\ m.membership_status = "inactive"
        /\ Len(resp[w].contacts) >= 1
        /\ resp[w].total < Cardinality(MembersOfGroup(db.members, req[w].group_id))

ListedIds(w) == {resp[w].contacts[i].id : i \in 1..Len(resp[w].contacts)}

\* C20: two list_contacts queries with the same filters and page size and
\* no write between them agree: the same page gives the same contacts in the
\* same order, and different pages have no contact in common.
C20_RepeatedListAgrees ==
    \A a, b \in Workers :
        (/\ a # b
         /\ pc[a] = "done" /\ pc[b] = "done"
         /\ req[a].op = "list_contacts" /\ req[b].op = "list_contacts"
         /\ code[a] = 200 /\ code[b] = 200)
        => IF req[a].page = req[b].page
           THEN resp[a] = resp[b]
           ELSE ListedIds(a) \cap ListedIds(b) = {}

\* the fields a patch sends as an explicit null
Nulled(patch) == {f \in DOMAIN patch : patch[f] = NULL}

\* C21: in a partial update of an existing contact, group or social profile a
\* nullable field sent as an explicit null is a concrete value: the update
\* succeeds, the column is cleared and the version is one higher.
C21_ExplicitNullClears ==
    \A w \in Workers :
        (/\ JustFinished(w)
         /\ req[w].op \in Updates
         /\ TargetOf(req[w]) \in DOMAIN TableOf(pre[w], req[w])
         /\ Nulled(req[w].patch) # {}
         /\ ~Faulted(w))
        => LET i == TargetOf(req[w])
           IN /\ code[w] = 200
              /\ i \in DOMAIN TableOf(db, req[w])
              /\ \A f \in Nulled(req[w].patch) : TableOf(db, req[w])[i][f] = NULL
              /\ TableOf(db, req[w])[i].version = TableOf(pre[w], req[w])[i].version + 1

\* the requests that update or delete one entity by its identifier
Mutations == Updates \cup {"delete_contact", "delete_group", "delete_social_profile"}

\* the entity a request addresses is among the committed rows d
AddressedIn(d, r) ==
    CASE r.op \in {"update_contact", "delete_contact"} -> r.contact_id \in DOMAIN d.contacts
      [] r.op \in {"update_group", "delete_group"} -> r.group_id \in DOMAIN d.groups
      [] r.op \in {"update_social_profile", "delete_social_profile"} ->
            r.profile_id \in DOMAIN d.profiles

\* C22: an update or delete that ends while no entity with the addressed
\* identifier is persisted answers 404 and writes nothing, whatever the patch
\* holds and also when the entity went away after the existence check.
C22_MissingTargetNotFound ==
    [][\A w \in Workers :
        (/\ Finishing(w)
         /\ req[w].op \in Mutations
         /\ ~AddressedIn(db, req[w]))
        => (code'[w] = 404 /\ db' = db)]_vars

\* term is, letter case aside, the text at the start of text
RECURSIVE StartsWith(_, _)
StartsWith(text, term) ==
    IF term = <<>> THEN TRUE
    ELSE /\ text # <<>>
         /\ Lower(Head(text)) = Lower(Head(term))
         /\ StartsWith(Tail(text), Tail(term))

\* term is a case-insensitive substring of text
RECURSIVE Contains(_, _)
Contains(text, term) ==
    \/ StartsWith(text, term)
    \/ text # <<>> /\ Contains(Tail(text), term)

\* the contacts of d that satisfy every filter the request r provides
Satisfying(d, r) ==
    {c \in DOMAIN d.contacts :
        /\ Truthy(r.search) =>
              \E f \in {"full_name", "email", "organization"} :
                  d.contacts[c][f] # NULL /\ Contains(d.contacts[c][f], r.search)
        /\ r.status # "" => d.contacts[c].contact_status = r.status
        /\ r.group_id # NoId =>
              \E m \in d.members : /\ MemberKey(m) = <<c, r.group_id>>
                                   /\ m.membership_status = "active"}

\* C23: list_contacts returns exactly the contacts that satisfy every filter
\* provided (search as a case-insensitive substring of full_name, email or
\* organization, status, group), a filter not provided restricts nothing,
\* and total counts the same set.
C23_FiltersExact ==
    \A w \in Workers :
        (pc[w] = "done" /\ req[w].op = "list_contacts" /\ code[w] = 200)
        => LET expected == Satisfying(db, req[w])
           IN /\ resp[w].total = Cardinality(expected)
              /\ ListedIds(w) \subseteq expected
              /\ (req[w].page = 1 /\ req[w].per_page >= Cardinality(expected))
                    => ListedIds(w) = expected

\* C24: add_contact_to_group inserts the membership row only when the
\* contact exists, the group exists and the pair has no membership;
\* otherwise it answers, in this order, 404 for a missing contact, 404 for a
\* missing group, 409 for an existing membership, and inserts nothing.
C24_AddMemberChecksInOrder ==
    \A w \in Workers :
        (JustFinished(w) /\ req[w].op = "add_contact_to_group" /\ ~Faulted(w))
        => LET c == req[w].contact_id
               g == req[w].group_id
           IN IF c \notin DOMAIN pre[w].contacts
              THEN code[w] = 404 /\ outcome[w] = "contact_not_found" /\ db = pre[w]
              ELSE IF g \notin DOMAIN pre[w].groups
              THEN code[w] = 404 /\ outcome[w] = "group_not_found" /\ db = pre[w]
              ELSE IF \E m \in pre[w].members : MemberKey(m) = <<c, g>>
              THEN code[w] = 409 /\ db = pre[w]
              ELSE /\ code[w] = 201
                   /\ \E m \in db.members :
                        /\ MemberKey(m) = <<c, g>>
                        /\ m.membership_status = req[w].membership_status
                        /\ db = [pre[w] EXCEPT !.members = @ \cup {m}]

\* neither the contact nor the group exists: the contact is reported
C24_Witness ==
    \E w \in Workers :
        /\ JustFinished(w) /\ req[w].op = "add_contact_to_group"
        /\ req[w].contact_id \notin DOMAIN pre[w].contacts
        /\ req[w].group_id \notin DOMAIN pre[w].groups
        /\ code[w] = 404 /\ outcome[w] = "contact_not_found"

\* C25: remove_contact_from_group deletes the membership row of the given
\* (contact, group) pair and nothing else: every other membership, contact,
\* group and profile row is as before; with no such membership it answers
\* 404 and changes nothing.
C25_RemoveMemberFrame ==
    \A w \in Workers :
        (JustFinished(w) /\ req[w].op = "remove_contact_from_group" /\ ~Faulted(w))
        => LET pair == <<req[w].contact_id, req[w].group_id>>
           IN IF \E m \in pre[w].members : MemberKey(m) = pair
              THEN /\ code[w] = 204
                   /\ db = [pre[w] EXCEPT !.members = {m \in @ : MemberKey(m) # pair}]
              ELSE code[w] = 404 /\ db = pre[w]

\* a contact in two groups is removed from one and stays in the other
C25_Witness ==
    \E w \in Workers :
        /\ JustFinished(w) /\ req[w].op = "remove_contact_from_group" /\ code[w] = 204
        /\ Cardinality(MembersOfContact(pre[w].members, req[w].contact_id)) = 2
        /\ Cardinality(MembersOfContact(db.members, req[w].contact_id)) = 1
        /\ Cardinality(MembersOfGroup(pre[w].members, req[w].group_id)) = 2

\* C26: two update_contact requests on the same existing contact, running
\* concurrently with patches that carry a field, both answered 200: the
\* version ends two higher than it started, and when the patches name
\* different fields the row holds the values of both.
C26_NoLostUpdate ==
    \A a, b \in Workers :
        (/\ a # b
         /\ pc[a] = "done" /\ pc[b] = "done"
         /\ req[a].op = "update_contact" /\ req[b].op = "update_contact"
         /\ req[a].contact_id = req[b].contact_id
         /\ Carried(req[a].patch) # {} /\ Carried(req[b].patch) # {}
         /\ code[a] = 200 /\ code[b] = 200
         /\ now[a] < now[b])
        => LET c == req[a].contact_id
           IN /\ c \in DOMAIN db.contacts
              /\ db.contacts[c].version = pre[a].contacts[c].version + 2
              /\ Carried(req[a].patch) \cap Carried(req[b].patch) = {}
                    => /\ \A f \in Carried(req[a].patch) : db.contacts[c][f] = req[a].patch[f]
                       /\ \A f \in Carried(req[b].patch) : db.contacts[c][f] = req[b].patch[f]

\* the second request began before the first one wrote
C26_Witness ==
    \E a, b \in Workers :
        /\ a # b
        /\ pc[a] = "done" /\ pc[b] = "done"
        /\ req[a].op = "update_contact" /\ req[b].op = "update_contact"
        /\ req[a].contact_id = req[b].contact_id
        /\ code[a] = 200 /\ code[b] = 200
        /\ req[a].contact_id \in DOMAIN pre[a].contacts
        /\ pre[a] = pre[b]
        /\ Carried(req[a].patch) = {"full_name"}
        /\ Carried(req[b].patch) = {"organization"}
        /\ db.contacts[req[a].contact_id].version
             = pre[a].contacts[req[a].contact_id].version + 2

\* C27: every finished request has handed its connection back with no
\* transaction open or failed on it, on its success path and on every
\* failure path.
C27_ConnectionsReturnedClean ==
    \A w \in Workers : pc[w] = "done" => conn[w] = "idle"

\* C28: a request that has finished, normally or by an exception, holds no
\* connection of the pool, only requests in progress hold one, and the
\* connections out of the pool never number more than the pool's size.
C28_PoolBounded ==
    /\ Cardinality(pool.used) <= pool.size
    /\ \A w \in Workers : pc[w] \in {"idle", "done"} => w \notin pool.used

\* the pool's only connection is out, a second request was refused for it,
\* and the first request ended by an exception and gave the connection back
C28_Witness ==
    \E a, b \in Workers :
        /\ a # b
        /\ pc[a] = "done" /\ outcome[a] = "fault" /\ req[a].op \in ConnectionOps
        /\ pc[b] = "done" /\ outcome[b] = "pool_exhausted"
        /\ pool.size = 1 /\ pool.used = {}

\* the three counts of every group agree on the committed rows
CountsAgree ==
    \A g \in DOMAIN db.groups :
        /\ MemberRowCount(db, g) = DistinctMemberCount(GroupJoin(db), g)
        /\ MemberRowCount(db, g) = DistinctMemberCount(GroupJoinOf(db, g), g)
        /\ MemberRowCount(db, g)
             = Cardinality({c \in DOMAIN db.contacts :
                              \E m \in db.members : m.contact_id = c /\ m.group_id = g})

\* C29: the member_count that update_group returns (the number of the
\* group's membership rows) is the member_count that get_group and
\* list_groups return for the group in the same state (the number of its
\* distinct member contacts), and both count memberships of every status.
C29_MemberCountsAgree ==
    /\ []CountsAgree
    /\ [][\A w \in Workers :
            (Finishing(w) /\ req[w].op = "update_group" /\ code'[w] = 200)
            => resp'[w].member_count
                 = DistinctMemberCount(GroupJoin(db'), req[w].group_id)]_vars

\* update_group on a group with an active and an inactive member
C29_Witness ==
    \E w \in Workers :
        /\ JustFinished(w) /\ req[w].op = "update_group" /\ code[w] = 200
        /\ resp[w].member_count = 2
        /\ \E m \in db.members : /\ m.group_id = req[w].group_id
                                 /\ m.membership_status = "inactive"
        /\ \E m \in db.members : /\ m.group_id = req[w].group_id
                                 /\ m.membership_status = "active"

============================================================================
